---- MODULE Spec2Model ----
(***************************************************************************)
(* Referral attribution, partner ledger, daily rollup and time-series      *)
(* gap filling of the venue lead pipeline, as state machines.              *)
(*                                                                         *)
(*   Spec        request handlers over the Partner and Contact stores,     *)
(*               interleaved at their await points                         *)
(*   SpecSeq     the same handlers, one request at a time                  *)
(*   SpecCode    generatePartnerCode as a function of the name and of the  *)
(*               Math.random() draw                                        *)
(*   SpecRate    the conversionRate virtual over the stats counters        *)
(*   SpecRollup  the Analytics event log and SiteStats.updateDailyStats,   *)
(*               one call at a time                                        *)
(*   SpecRollupPar  two updateDailyStats calls interleaved                 *)
(*   SpecSeries  getTimeSeriesData and its gap filling                     *)
(*   SpecReview  createReview and its analytics event                      *)
(*   SpecAdmin   partner and contact administration beside the public      *)
(*               handlers, one request at a time                           *)
(*   SpecAdminOk the same, in the behaviours where no handler failed       *)
(*   SpecDeactivate  deactivation and reactivation of a stored partner,    *)
(*               interleaved with submissions and funnel updates           *)
(*   SpecAgent   the user-agent classification of getDeviceAnalytics       *)
(*   SpecBreakdown  the page and device breakdowns with their percentages  *)
(***************************************************************************)
EXTENDS Integers, Sequences, FiniteSets, TLC

VARIABLES
    partners,   \* Partner collection: sequence of documents, _id = index
    leads,      \* Contact collection: sequence of documents, _id = index
    procs,      \* in-flight request handlers, one record per handler
    quota,      \* requests the system will still accept
    resp,       \* the response of the request that completed last, NoResp once a new one is accepted
    ledgerCalls,\* per partner: updateStats calls that returned, by kind
    genName,    \* SpecCode: the name handed to generatePartnerCode
    genRandom,  \* SpecCode: fraction digits of Math.random().toString(36)
    genCode,    \* SpecCode: the code returned, NoCode before the call
    rateStats,  \* SpecRate: the stats of the partner whose conversionRate is read
    rateOut,    \* SpecRate: the value the getter returned, NoRate before the read
    events,     \* Analytics collection: how many events of each shape at each instant
    siteStats,  \* SiteStats collection: the set of stored documents
    now,        \* wall clock, in ticks
    budget,     \* events and rollups still accepted, and the events that may come
    rollups,    \* updateDailyStats calls in flight, one record per worker
    fresh,      \* dates whose stored document was computed from the current log
    rollupLog,  \* the updateDailyStats call that returned last, NoLog after any other step
    series,     \* the getTimeSeriesData request in flight or answered last
    reviews,    \* Review collection: sequence of documents, _id = index
    reviewEvents,\* Analytics documents of type review_submission, in insertion order
    reviewReq,  \* the createReview request in flight, or its response
    removed,    \* _ids of the Contact documents findByIdAndDelete has removed
    pageLog,    \* getPageAnalytics: page_view events in the window, counted per page
    uaLog,      \* getDeviceAnalytics: events in the window, counted per user agent
    pageOut,    \* the pages array getPageAnalytics answered with
    deviceOut,  \* the devices and browsers arrays getDeviceAnalytics answered with
    agent,      \* SpecAgent: the user agent being classified
    agentClass  \* SpecAgent: its deviceType and browser

vars == <<partners, leads, procs, quota, resp, ledgerCalls, genName, genRandom, genCode,
          rateStats, rateOut,
          events, siteStats, now, budget, rollups, fresh, rollupLog, series,
          reviews, reviewEvents, reviewReq, removed,
          pageLog, uaLog, pageOut, deviceOut, agent, agentClass>>

funnelVars == <<partners, leads, procs, quota, resp, ledgerCalls>>
reviewVars == <<reviews, reviewEvents, reviewReq>>
breakdownVars == <<pageLog, uaLog, pageOut, deviceOut>>
agentVars  == <<agent, agentClass>>
auxVars    == <<reviewVars, removed, breakdownVars, agentVars>>
codeVars   == <<genName, genRandom, genCode, rateStats, rateOut, auxVars>>
rollupVars == <<events, siteStats, now, budget, rollups, fresh, rollupLog, series>>

\* the collections and requests a specification does not exercise
ReviewsOff == reviews = <<>> /\ reviewEvents = <<>> /\ reviewReq = <<>>
BreakdownOff == pageLog = <<>> /\ uaLog = <<>> /\ pageOut = <<>> /\ deviceOut = <<>>
AgentOff   == agent = {} /\ agentClass = <<>>
AuxOff     == ReviewsOff /\ removed = {} /\ BreakdownOff /\ AgentOff

\* ------------------------------------------------------------------ bounds
MaxPrefixLen == 2   \* free characters at the head of a generated name
MaxRun       == 8   \* trailing run of one letter appended to that head
MaxFracLen   == 4   \* fraction digits Math.random().toString(36) may print

\* ------------------------------------------------------------- characters
LowerChars == {"a", "j"}
UpperChars == {"A", "J", "K"}
DigitChars == {"7"}
OtherChars == {" ", "-"}

NoCode == <<"?">>

RECURSIVE SeqsUpTo(_, _)
SeqsUpTo(S, n) ==
    IF n = 0 THEN {<<>>}
    ELSE LET shorter == SeqsUpTo(S, n - 1)
         IN  shorter \cup {Append(s, c) : s \in {t \in shorter : Len(t) = n - 1}, c \in S}

RECURSIVE Rep(_, _)
Rep(c, n) == IF n = 0 THEN <<>> ELSE <<c>> \o Rep(c, n - 1)

Min(a, b) == IF a < b THEN a ELSE b

\* String.prototype.toUpperCase on one character
ToUpperChar(c) ==
    CASE c = "a" -> "A"
      [] c = "j" -> "J"
      [] c = "k" -> "K"
      [] OTHER   -> c

ToUpperCase(s) == [i \in 1..Len(s) |-> ToUpperChar(s[i])]

\* /[a-zA-Z0-9]/
IsAlnum(c) == c \in LowerChars \cup UpperChars \cup DigitChars \cup {"k"}

\* /[A-Z0-9]/
IsUpperAlnum(c) == c \in UpperChars \cup DigitChars

\* name.replace(/[^a-zA-Z0-9]/g, '')
StripNonAlnum(s) == SelectSeq(s, IsAlnum)

\* String.prototype.substring(from, to) with 0-based from, exclusive to
Substring(s, from, to) == SubSeq(s, from + 1, Min(to, Len(s)))

CodePrefix == <<"T", "W", "B", "F", "L", "-">>

\* Partner.js: cleanName = name.replace(...).toUpperCase().substring(0, 8)
CleanName(name) == Substring(ToUpperCase(StripNonAlnum(name)), 0, 8)

\* Math.random().toString(36) is "0." followed by the fraction digits `frac`
\* ("0" alone when the draw is 0); substring(2, 5).toUpperCase() of it
RandomSuffix(frac) == ToUpperCase(Substring(<<"0", ".">> \o frac, 2, 5))

generatePartnerCode(name, frac) == CodePrefix \o CleanName(name) \o RandomSuffix(frac)

\* /^TWBFL-[A-Z0-9]{4,10}$/
MatchesCodePattern(code) ==
    /\ Len(code) >= Len(CodePrefix)
    /\ SubSeq(code, 1, Len(CodePrefix)) = CodePrefix
    /\ LET rest == SubSeq(code, Len(CodePrefix) + 1, Len(code))
       IN  /\ Len(rest) >= 4
           /\ Len(rest) <= 10
           /\ \A i \in 1..Len(rest) : IsUpperAlnum(rest[i])

\* ---------------------------------------------------------------- SpecCode
NameChars == LowerChars \cup {"A", "7", " ", "-"}
FracChars == {"k", "7"}

\* names the creation route lets through: validatePartnerData requires
\* name.trim().length >= 2, the schema at most 100 characters
Trimmed(name) == Len(name) > 0 => (name[1] # " " /\ name[Len(name)] # " ")
NameInputs ==
    {n \in {p \o Rep("a", k) : p \in SeqsUpTo(NameChars, MaxPrefixLen), k \in 0..MaxRun} :
        Len(n) >= 2 /\ Len(n) <= 100 /\ Trimmed(n)}
FracInputs == SeqsUpTo(FracChars, MaxFracLen)

InitCode ==
    /\ genName \in NameInputs
    /\ genRandom \in FracInputs
    /\ genCode = NoCode
    /\ rateStats = <<>> /\ rateOut = <<>>
    /\ AuxOff
    /\ partners = <<>> /\ leads = <<>> /\ procs = <<>> /\ quota = 0
    /\ resp = <<>> /\ ledgerCalls = <<>>
    /\ events = <<>> /\ siteStats = {} /\ now = 0 /\ budget = <<>>
    /\ rollups = <<>> /\ fresh = {} /\ rollupLog = <<>> /\ series = <<>>

GenerateCode ==
    /\ genCode = NoCode
    /\ genCode' = generatePartnerCode(genName, genRandom)
    /\ UNCHANGED <<genName, genRandom, rateStats, rateOut, auxVars, funnelVars, rollupVars>>

NextCode == GenerateCode

SpecCode == InitCode /\ [][NextCode]_vars

\* C10: every code generatePartnerCode returns for an accepted name matches
\* ^TWBFL-[A-Z0-9]{4,10}$ (prefix, then 4 to 10 uppercase alphanumerics).
C10_GeneratedCodeMatchesPattern ==
    genCode # NoCode => MatchesCodePattern(genCode)

\* ============================================================ request layer
MaxRequests    == 3 \* requests accepted in one behaviour of Spec
MaxSeqRequests == 4 \* requests accepted in one behaviour of SpecSeq
MaxPartners == 2    \* Partner documents the store may hold
MaxLeads    == 2    \* Contact documents the store may hold
maxAttempts == 10   \* Partner.js pre('save'): const maxAttempts = 10

\* two request handlers may be in flight together
Procs == {1, 2}

PartnerTypes == {"affiliate", "influencer", "vendor"}
Null         == "null"
NoRef        == <<>>            \* refCode absent from the request body

\* names and Math.random() draws offered to createPartner: two spellings with
\* the same 8-character stem idea ("ja" / "J-a" both clean to "JA")
PartnerNames == {<<"j", "a">>, <<"J", "-", "a">>}

\* the partner applications createPartner receives: two names that clean to
\* the same stem, under two e-mail addresses
Applications ==
    {[name |-> <<"j", "a">>,      type |-> "affiliate",  email |-> "a@x.io"],
     [name |-> <<"J", "-", "a">>, type |-> "vendor",     email |-> "b@x.io"],
     [name |-> <<"j", "a">>,      type |-> "influencer", email |-> "b@x.io"]}
HookFracs    == {Rep(c, 3) : c \in FracChars}

PossibleCodes == {generatePartnerCode(n, f) : n \in PartnerNames, f \in HookFracs}

\* refCode values a lead submission may carry: none, each code a partner can
\* hold, and a lower-case spelling of one of them
LowerSpelling == CodePrefix \o <<"j", "a", "k", "k", "k">>
RefCodeInputs == {NoRef} \cup PossibleCodes \cup {LowerSpelling}

\* JSON values of tourScheduled / booked in the request body
Undefined  == "undefined"
BodyValues == {Undefined, "true", "false", "'false'"}

\* the { tourScheduled, booked } bodies updateContactLeadStatus receives: one
\* field at a time, and both set to true
FunnelBodies ==
    {b \in [tourScheduled : BodyValues, booked : BodyValues] :
        \/ b.tourScheduled = Undefined
        \/ b.booked = Undefined
        \/ (b.tourScheduled = "true" /\ b.booked = "true")}

\* req.body.utmSource of a lead submission: a referral link carries
\* utm_source next to its ref code, a direct visit carries neither
UtmInputs == {Undefined, "newsletter"}
UtmOf(refCode) == IF refCode = NoRef THEN Undefined ELSE "newsletter"

\* JavaScript truthiness of a body value (a non-empty string is truthy)
Truthy(v) == v \in {"true", "'false'"}

\* Mongoose's Boolean cast: true and 'true' give true, false and 'false' false
CastBoolean(v) == v = "true"

NoDoc   == [idx |-> 0]
Idle    == [op |-> "idle", pc |-> "idle"]
NoResp  == [op |-> "none", status |-> 0]

\* Partner.findOne({ code })
PartnersWithCode(code) == {k \in 1..Len(partners) : partners[k].code = code}

\* Partner.findOne({ email })
PartnersWithEmail(email) == {k \in 1..Len(partners) : partners[k].email = email}

\* a lookup by code alone, whatever the partner's active flag
findByCodeAnyStatus(code) ==
    {k \in 1..Len(partners) : partners[k].code = ToUpperCase(code)}

\* Partner.js statics.findByCode: findOne({ code: code.toUpperCase(), active: true })
findByCode(code) ==
    {k \in 1..Len(partners) : partners[k].code = ToUpperCase(code) /\ partners[k].active}

\* Partner.js methods.updateStats: the in-memory document's counter plus one
\* a ledger that books a new lead under the tours counter
IncrementedStatAsTour(doc, kind) ==
    [doc EXCEPT !.totalTours = doc.totalTours + 1]

IncrementedStat(doc, kind) ==
    CASE kind = "lead"    -> [doc EXCEPT !.totalLeads = doc.totalLeads + 1]
      [] kind = "tour"    -> [doc EXCEPT !.totalTours = doc.totalTours + 1]
      [] kind = "booking" -> [doc EXCEPT !.totalBookings = doc.totalBookings + 1]
      [] OTHER            -> doc

\* save() of the in-memory document `doc` loaded from partners[k]: a $set of the
\* paths updateStats modified, computed from the values read at load time
updateStats(k, doc, kind) ==
    LET upd == IncrementedStat(doc, kind)
    IN  [partners EXCEPT ![k] =
            CASE kind = "lead"    -> [@ EXCEPT !.totalLeads = upd.totalLeads]
              [] kind = "tour"    -> [@ EXCEPT !.totalTours = upd.totalTours]
              [] kind = "booking" -> [@ EXCEPT !.totalBookings = upd.totalBookings]
              [] OTHER            -> @]

\* the counters stored for the partner holding `code`, zeros when there is none
NoStats == [totalLeads |-> 0, totalTours |-> 0, totalBookings |-> 0]
StatsOf(code) ==
    IF PartnersWithCode(code) = {} THEN NoStats
    ELSE LET k == CHOOSE k \in PartnersWithCode(code) : TRUE
         IN  [totalLeads |-> partners[k].totalLeads, totalTours |-> partners[k].totalTours,
              totalBookings |-> partners[k].totalBookings]

\* every completed updateStats call, counted per partner and kind
Counted(k, kind) ==
    [ledgerCalls EXCEPT ![k] =
        CASE kind = "lead"    -> [@ EXCEPT !.lead = @ + 1]
          [] kind = "tour"    -> [@ EXCEPT !.tour = @ + 1]
          [] kind = "booking" -> [@ EXCEPT !.booking = @ + 1]
          [] OTHER            -> @]

\* Contact.findById(id) finds a document
ContactFound(id) == id \in 1..Len(leads) /\ id \notin removed

IsIdle(p) == procs[p].op = "idle"

\* a handler takes a new request: its previous response is dropped
Accept(p) ==
    /\ IsIdle(p)
    /\ quota > 0
    /\ quota' = quota - 1

Finish(p, r) ==
    /\ procs' = [procs EXCEPT ![p] = Idle]
    /\ resp' = r

Goto(p, rec) ==
    /\ procs' = [procs EXCEPT ![p] = rec]
    /\ resp' = NoResp

\* ------------------------------------------------ createPartner (Partner.create)
\* partnerController.js createPartner up to Partner.create: the e-mail lookup,
\* then schema validation of the submitted fields
CreateRequest(p) ==
    \E app \in Applications, valid \in BOOLEAN :
        /\ Accept(p)
        /\ Len(partners) + Cardinality({q \in Procs : procs[q].op = "create"}) < MaxPartners
        /\ IF PartnersWithEmail(app.email) # {}
           THEN Finish(p, [op |-> "create", status |-> 400, error |-> "email exists"])
           ELSE IF ~valid
           THEN Finish(p, [op |-> "create", status |-> 400, error |-> "ValidationError"])
           ELSE Goto(p, [op |-> "create", pc |-> "hook", name |-> app.name, type |-> app.type,
                         email |-> app.email, attempts |-> 0, code |-> NoCode])
        /\ UNCHANGED <<partners, leads, ledgerCalls, codeVars, rollupVars>>

\* a loop that draws candidates until one is free, however many it takes
CreateHookAttemptUnbounded(p) ==
    \E frac \in HookFracs :
        LET me   == procs[p]
            cand == generatePartnerCode(me.name, frac)
        IN  /\ me.op = "create" /\ me.pc = "hook"
            /\ IF PartnersWithCode(cand) = {}
               THEN procs' = [procs EXCEPT ![p] = [me EXCEPT !.code = cand, !.pc = "insert"]]
               ELSE procs' = [procs EXCEPT ![p] = [me EXCEPT !.attempts = @ + 1]]
            /\ UNCHANGED <<partners, leads, quota, resp, ledgerCalls, codeVars, rollupVars>>

\* Partner.js pre('save'): one turn of the while loop, a candidate from
\* generatePartnerCode and the findOne({ code }) that accepts or rejects it
CreateHookAttempt(p) ==
    \E frac \in HookFracs :
        LET me   == procs[p]
            cand == generatePartnerCode(me.name, frac)
        IN  /\ me.op = "create" /\ me.pc = "hook"
            /\ IF PartnersWithCode(cand) = {}
               THEN procs' = [procs EXCEPT ![p] = [me EXCEPT !.code = cand, !.pc = "insert"]]
                    /\ UNCHANGED resp
               ELSE IF me.attempts + 1 < maxAttempts
               THEN procs' = [procs EXCEPT ![p] = [me EXCEPT !.attempts = @ + 1]]
                    /\ UNCHANGED resp
               ELSE Finish(p, [op |-> "create", status |-> 500,
                               error |-> "Unable to generate unique partner code",
                               attempts |-> me.attempts + 1, email |-> me.email])
            /\ UNCHANGED <<partners, leads, quota, ledgerCalls, codeVars, rollupVars>>

\* a store whose only unique index is the one on email
UniqueIndexOnEmailOnly(code, email) ==
    PartnersWithEmail(email) = {}

\* the unique indexes on code and email (Partner.js index({code: 1}, {unique: true}))
UniqueIndexAllows(code, email) ==
    /\ PartnersWithCode(code) = {}
    /\ PartnersWithEmail(email) = {}

NewPartner(me) ==
    [code |-> me.code, name |-> me.name, type |-> me.type, email |-> me.email, active |-> TRUE,
     totalLeads |-> 0, totalTours |-> 0, totalBookings |-> 0]

\* the insert that ends Partner.create, and createPartner's answer to it
CreateInsert(p) ==
    LET me == procs[p]
    IN  /\ me.op = "create" /\ me.pc = "insert"
        /\ IF UniqueIndexAllows(me.code, me.email)
           THEN /\ partners' = Append(partners, NewPartner(me))
                /\ ledgerCalls' = Append(ledgerCalls, [lead |-> 0, tour |-> 0, booking |-> 0])
                /\ Finish(p, [op |-> "create", status |-> 201, code |-> me.code,
                              conflict |-> FALSE])
           ELSE /\ UNCHANGED <<partners, ledgerCalls>>
                /\ Finish(p, [op |-> "create", status |-> 400, error |-> "E11000",
                              code |-> me.code, email |-> me.email,
                              conflict |-> PartnersWithCode(me.code) # {}])
        /\ UNCHANGED <<leads, quota, codeVars, rollupVars>>

\* ------------------------------------------------ saving a stored partner again
\* a hook that draws a fresh code on every save
PreSaveRegenerating(doc, frac) ==
    [doc EXCEPT !.code = generatePartnerCode(doc.name, frac)]

\* Partner.js pre('save') on a document loaded from the store: the body runs
\* only under `!this.code && this.name`; with no code stored it would draw one
PreSave(doc, frac) ==
    IF doc.code = NoCode /\ doc.name # <<>>
    THEN [doc EXCEPT !.code = generatePartnerCode(doc.name, frac)]
    ELSE doc

\* partner.save() of the in-memory document `doc` loaded as `loaded`: a $set
\* of the paths whose value was modified since the load
SavedPartner(stored, loaded, doc) ==
    [stored EXCEPT
        !.code   = IF doc.code   # loaded.code   THEN doc.code   ELSE @,
        !.name   = IF doc.name   # loaded.name   THEN doc.name   ELSE @,
        !.type   = IF doc.type   # loaded.type   THEN doc.type   ELSE @,
        !.email  = IF doc.email  # loaded.email  THEN doc.email  ELSE @,
        !.active = IF doc.active # loaded.active THEN doc.active ELSE @]

\* ------------------------------------------------ deletePartner
\* a handler that removes the document (findByIdAndDelete)
DeleteSaveHard(p) ==
    LET me == procs[p]
    IN  /\ me.op = "delete" /\ me.pc = "save"
        /\ partners' = SubSeq(partners, 1, me.id - 1) \o SubSeq(partners, me.id + 1, Len(partners))
        /\ ledgerCalls' = SubSeq(ledgerCalls, 1, me.id - 1) \o SubSeq(ledgerCalls, me.id + 1, Len(ledgerCalls))
        /\ Finish(p, [op |-> "delete", status |-> 200, id |-> me.id, before |-> partners[me.id]])
        /\ UNCHANGED <<leads, quota, codeVars, rollupVars>>

DeleteRequest(p) ==
    \E id \in 1..MaxPartners :
        /\ Accept(p)
        /\ IF id \in 1..Len(partners)
           THEN Goto(p, [op |-> "delete", pc |-> "save", id |-> id, doc |-> partners[id]])
           ELSE Finish(p, [op |-> "delete", status |-> 404])
        /\ UNCHANGED <<partners, leads, ledgerCalls, codeVars, rollupVars>>

\* partner.active = false; await partner.save(): a $set of active when it changed
DeleteSave(p) ==
    \E frac \in HookFracs :
        LET me  == procs[p]
            doc == PreSave([me.doc EXCEPT !.active = FALSE], frac)
        IN  /\ me.op = "delete" /\ me.pc = "save"
            /\ partners' = [partners EXCEPT ![me.id] = SavedPartner(@, me.doc, doc)]
            /\ Finish(p, [op |-> "delete", status |-> 200, id |-> me.id,
                          before |-> partners[me.id]])
            /\ UNCHANGED <<leads, quota, ledgerCalls, codeVars, rollupVars>>

\* ------------------------------------------------ submitContactForm
InFlight(op) == Cardinality({q \in Procs : procs[q].op = op})

\* validateContactForm: refCode is optional().matches(/^TWBFL-[A-Z0-9]{4,10}$/);
\* then the handler up to its first await
SubmitRequest(p) ==
    \E refCode \in RefCodeInputs, utmSource \in UtmInputs :
        /\ utmSource = UtmOf(refCode)
        /\ Accept(p)
        /\ Len(leads) + InFlight("submit") < MaxLeads
        /\ IF refCode # NoRef /\ ~MatchesCodePattern(refCode)
           THEN Finish(p, [op |-> "submit", status |-> 400, refCode |-> refCode])
           ELSE Goto(p, [op |-> "submit",
                         pc |-> IF refCode # NoRef THEN "lookup" ELSE "create",
                         refCode |-> refCode, refSource |-> Null, utmSource |-> utmSource,
                         partner |-> NoDoc, threw |-> FALSE, pre |-> StatsOf(ToUpperCase(refCode))])
        /\ UNCHANGED <<partners, leads, ledgerCalls, codeVars, rollupVars>>

\* contactController.js:104-106  partner = await Partner.findByCode(refCode);
\* if (partner) refSource = partner.type; a throw is caught at line 110
SubmitLookup(p) ==
    \E throws \in BOOLEAN :
        LET me    == procs[p]
            found == findByCode(me.refCode)
        IN  /\ me.op = "submit" /\ me.pc = "lookup"
            /\ IF throws \/ found = {}
               THEN procs' = [procs EXCEPT ![p] = [me EXCEPT !.pc = "create", !.threw = throws]]
               ELSE \E k \in found :
                      procs' = [procs EXCEPT ![p] =
                                  [me EXCEPT !.pc = "ledger",
                                             !.refSource = partners[k].type,
                                             !.partner = [idx |-> k, doc |-> partners[k]]]]
            /\ UNCHANGED <<partners, leads, quota, resp, ledgerCalls, codeVars, rollupVars>>

\* a handler without the try / catch around the ledger call: a throwing
\* updateStats reaches next(error)
SubmitLedgerUncaught(p) ==
    \E throws \in BOOLEAN :
        LET me == procs[p]
        IN  /\ me.op = "submit" /\ me.pc = "ledger"
            /\ IF throws
               THEN /\ UNCHANGED <<partners, ledgerCalls>>
                    /\ Finish(p, [op |-> "submit", status |-> 500, refCode |-> me.refCode,
                                  threw |-> TRUE, pre |-> me.pre, id |-> 0,
                                  resolved |-> TRUE, at |-> "updateStats"])
               ELSE /\ partners' = updateStats(me.partner.idx, me.partner.doc, "lead")
                    /\ ledgerCalls' = Counted(me.partner.idx, "lead")
                    /\ procs' = [procs EXCEPT ![p] = [me EXCEPT !.pc = "create"]]
                    /\ UNCHANGED resp
            /\ UNCHANGED <<leads, quota, codeVars, rollupVars>>

\* contactController.js:108  await partner.updateStats('lead')
SubmitLedger(p) ==
    \E throws \in BOOLEAN :
        LET me == procs[p]
        IN  /\ me.op = "submit" /\ me.pc = "ledger"
            /\ IF throws
               THEN UNCHANGED <<partners, ledgerCalls>>
               ELSE /\ partners' = updateStats(me.partner.idx, me.partner.doc, "lead")
                    /\ ledgerCalls' = Counted(me.partner.idx, "lead")
            /\ procs' = [procs EXCEPT ![p] = [me EXCEPT !.pc = "create", !.threw = throws]]
            /\ UNCHANGED <<leads, quota, resp, codeVars, rollupVars>>

\* contactController.js:117-140 contactData, with the Contact schema defaults
NewContact(me) ==
    [refSource |-> me.refSource,
     refCode |-> IF me.refCode # NoRef THEN ToUpperCase(me.refCode) ELSE NoRef,
     utm |-> IF me.utmSource = Undefined THEN Null ELSE me.utmSource,
     status |-> "new",
     tourScheduled |-> FALSE, booked |-> FALSE]

\* contactController.js:142-163  Contact.create, then 201, or next(error)
SubmitCreate(p) ==
    \E fails \in BOOLEAN :
        LET me == procs[p]
        IN  /\ me.op = "submit" /\ me.pc = "create"
            /\ IF fails
               THEN /\ UNCHANGED leads
                    /\ Finish(p, [op |-> "submit", status |-> 500, refCode |-> me.refCode,
                                  threw |-> TRUE, pre |-> me.pre, id |-> 0,
                                  resolved |-> me.partner # NoDoc,
                                  at |-> "Contact.create"])
               ELSE /\ leads' = Append(leads, NewContact(me))
                    /\ Finish(p, [op |-> "submit", status |-> 201, refCode |-> me.refCode,
                                  threw |-> me.threw, pre |-> me.pre,
                                  id |-> Len(leads) + 1,
                                  resolved |-> me.partner # NoDoc])
            /\ UNCHANGED <<partners, quota, ledgerCalls, codeVars, rollupVars>>

\* ------------------------------------------------ updateContactLeadStatus
\* contactController.js:373-374  contact.tourScheduled = tourScheduled
TourAssigned(contact, ts) ==
    IF ts = Undefined THEN contact
    ELSE [contact EXCEPT !.tourScheduled = CastBoolean(ts)]

\* a guard that does not look at the stored flag at all
TourGuardEveryCall(contact, ts) ==
    /\ ts # Undefined
    /\ Truthy(ts)
    /\ contact.refCode # NoRef

\* contactController.js:380  tourScheduled && !contact.tourScheduled &&
\* contact.refCode, evaluated after the assignment of line 374
TourGuard(contact, ts) ==
    /\ ts # Undefined
    /\ Truthy(ts)
    /\ ~TourAssigned(contact, ts).tourScheduled
    /\ contact.refCode # NoRef

\* contactController.js:393-394  contact.booked = booked
BookedAssigned(contact, bk) ==
    IF bk = Undefined THEN contact
    ELSE [contact EXCEPT !.booked = CastBoolean(bk)]

\* contactController.js:403  booked && !contact.booked && contact.refCode,
\* evaluated after the assignment of line 394
BookedGuard(contact, bk) ==
    /\ bk # Undefined
    /\ Truthy(bk)
    /\ ~BookedAssigned(contact, bk).booked
    /\ contact.refCode # NoRef

\* where the handler awaits next once the tour block is over
AfterTourBlock(me) ==
    LET c == BookedAssigned(me.contact, me.booked)
    IN  [me EXCEPT !.contact = c,
                   !.pc = IF BookedGuard(me.contact, me.booked) THEN "bookLookup" ELSE "save"]

\* contactController.js:361-380  findById, 404, the tour assignment and guard
FunnelRequest(p) ==
    \E id \in 1..MaxLeads, body \in FunnelBodies :
        /\ Accept(p)
        /\ IF ~ContactFound(id)
           THEN Finish(p, [op |-> "funnel", status |-> 404])
           ELSE LET me == [op |-> "funnel", pc |-> "tourLookup", id |-> id,
                           tourScheduled |-> body.tourScheduled, booked |-> body.booked,
                           loaded |-> leads[id],
                           contact |-> TourAssigned(leads[id], body.tourScheduled),
                           partner |-> NoDoc, threw |-> FALSE,
                           pre |-> StatsOf(leads[id].refCode)]
                IN  Goto(p, IF TourGuard(leads[id], body.tourScheduled)
                            THEN me ELSE AfterTourBlock(me))
        /\ UNCHANGED <<partners, leads, ledgerCalls, codeVars, rollupVars>>

\* contactController.js:382-383  Partner.findByCode(contact.refCode)
FunnelTourLookup(p) ==
    \E throws \in BOOLEAN :
        LET me    == procs[p]
            found == findByCode(me.contact.refCode)
        IN  /\ me.op = "funnel" /\ me.pc = "tourLookup"
            /\ IF throws \/ found = {}
               THEN procs' = [procs EXCEPT ![p] = AfterTourBlock([me EXCEPT !.threw = throws])]
               ELSE \E k \in found :
                      procs' = [procs EXCEPT ![p] =
                                  [me EXCEPT !.pc = "tourLedger",
                                             !.partner = [idx |-> k, doc |-> partners[k]]]]
            /\ UNCHANGED <<partners, leads, quota, resp, ledgerCalls, codeVars, rollupVars>>

\* a handler without the try / catch around the tour increment: a throwing
\* updateStats reaches next(error) and contact.save() is never called
FunnelTourLedgerUncaught(p) ==
    \E throws \in BOOLEAN :
        LET me == procs[p]
        IN  /\ me.op = "funnel" /\ me.pc = "tourLedger"
            /\ IF throws
               THEN /\ UNCHANGED <<partners, ledgerCalls>>
                    /\ Finish(p, [op |-> "funnel", status |-> 500, id |-> me.id,
                                  tourScheduled |-> me.tourScheduled, booked |-> me.booked,
                                  loaded |-> me.loaded, threw |-> TRUE, pre |-> me.pre,
                                  ledgerThrew |-> TRUE, at |-> "updateStats"])
               ELSE /\ partners' = updateStats(me.partner.idx, me.partner.doc, "tour")
                    /\ ledgerCalls' = Counted(me.partner.idx, "tour")
                    /\ procs' = [procs EXCEPT ![p] = AfterTourBlock(me)]
                    /\ UNCHANGED resp
            /\ UNCHANGED <<leads, quota, codeVars, rollupVars>>

\* contactController.js:384  await partner.updateStats('tour')
FunnelTourLedger(p) ==
    \E throws \in BOOLEAN :
        LET me == procs[p]
        IN  /\ me.op = "funnel" /\ me.pc = "tourLedger"
            /\ IF throws
               THEN UNCHANGED <<partners, ledgerCalls>>
               ELSE /\ partners' = updateStats(me.partner.idx, me.partner.doc, "tour")
                    /\ ledgerCalls' = Counted(me.partner.idx, "tour")
            /\ procs' = [procs EXCEPT ![p] = AfterTourBlock([me EXCEPT !.threw = @ \/ throws])]
            /\ UNCHANGED <<leads, quota, resp, codeVars, rollupVars>>

\* contactController.js:405-406  Partner.findByCode(contact.refCode)
FunnelBookLookup(p) ==
    \E throws \in BOOLEAN :
        LET me    == procs[p]
            found == findByCode(me.contact.refCode)
        IN  /\ me.op = "funnel" /\ me.pc = "bookLookup"
            /\ IF throws \/ found = {}
               THEN procs' = [procs EXCEPT ![p] =
                                [me EXCEPT !.pc = "save", !.threw = @ \/ throws]]
               ELSE \E k \in found :
                      procs' = [procs EXCEPT ![p] =
                                  [me EXCEPT !.pc = "bookLedger",
                                             !.partner = [idx |-> k, doc |-> partners[k]]]]
            /\ UNCHANGED <<partners, leads, quota, resp, ledgerCalls, codeVars, rollupVars>>

\* contactController.js:407  await partner.updateStats('booking')
FunnelBookLedger(p) ==
    \E throws \in BOOLEAN :
        LET me == procs[p]
        IN  /\ me.op = "funnel" /\ me.pc = "bookLedger"
            /\ IF throws
               THEN UNCHANGED <<partners, ledgerCalls>>
               ELSE /\ partners' = updateStats(me.partner.idx, me.partner.doc, "booking")
                    /\ ledgerCalls' = Counted(me.partner.idx, "booking")
            /\ procs' = [procs EXCEPT ![p] = [me EXCEPT !.pc = "save", !.threw = @ \/ throws]]
            /\ UNCHANGED <<leads, quota, resp, codeVars, rollupVars>>

\* contact.save(): a $set of the paths whose value differs from the loaded one
SavedContact(stored, loaded, contact) ==
    [stored EXCEPT
        !.tourScheduled = IF contact.tourScheduled # loaded.tourScheduled
                          THEN contact.tourScheduled ELSE @,
        !.booked        = IF contact.booked # loaded.booked
                          THEN contact.booked ELSE @]

\* contactController.js:415-423  await contact.save(), then 200, or next(error)
FunnelSave(p) ==
    \E fails \in BOOLEAN :
        LET me == procs[p]
        IN  /\ me.op = "funnel" /\ me.pc = "save"
            /\ IF fails
               THEN /\ UNCHANGED leads
                    /\ Finish(p, [op |-> "funnel", status |-> 500, id |-> me.id,
                                  tourScheduled |-> me.tourScheduled, booked |-> me.booked,
                                  loaded |-> me.loaded, threw |-> TRUE, pre |-> me.pre,
                                  ledgerThrew |-> me.threw, at |-> "contact.save"])
               ELSE /\ leads' = [leads EXCEPT ![me.id] = SavedContact(@, me.loaded, me.contact)]
                    /\ Finish(p, [op |-> "funnel", status |-> 200, id |-> me.id,
                                  tourScheduled |-> me.tourScheduled, booked |-> me.booked,
                                  loaded |-> me.loaded, threw |-> me.threw, pre |-> me.pre,
                                  ledgerThrew |-> me.threw, at |-> "response"])
            /\ UNCHANGED <<partners, quota, ledgerCalls, codeVars, rollupVars>>

\* ------------------------------------------------ the request-handling system
InitStores ==
    /\ partners = <<>>
    /\ leads = <<>>
    /\ procs = [p \in Procs |-> Idle]
    /\ resp = NoResp
    /\ ledgerCalls = <<>>
    /\ genName = <<>> /\ genRandom = <<>> /\ genCode = NoCode
    /\ rateStats = <<>> /\ rateOut = <<>>
    /\ AuxOff
    /\ events = <<>> /\ siteStats = {} /\ now = 0 /\ budget = <<>>
    /\ rollups = <<>> /\ fresh = {} /\ rollupLog = <<>> /\ series = <<>>

Init == InitStores /\ quota = MaxRequests

InitSeq == InitStores /\ quota = MaxSeqRequests

Step(p) ==
    \/ CreateRequest(p)
    \/ CreateHookAttempt(p)
    \/ CreateInsert(p)
    \/ DeleteRequest(p)
    \/ DeleteSave(p)
    \/ SubmitRequest(p)
    \/ SubmitLookup(p)
    \/ SubmitLedger(p)
    \/ SubmitCreate(p)
    \/ FunnelRequest(p)
    \/ FunnelTourLookup(p)
    \/ FunnelTourLedger(p)
    \/ FunnelBookLookup(p)
    \/ FunnelBookLedger(p)
    \/ FunnelSave(p)

Next == \E p \in Procs : Step(p)

\* handlers interleave at every await
Spec == Init /\ [][Next]_vars

\* one request at a time: handler 1 runs each request to its response
NextSeq == Step(1)

SpecSeq == InitSeq /\ [][NextSeq]_vars

\* ================================================================ analytics
MaxNow          == 2  \* last tick the clock reaches
MaxEvents       == 4  \* events appended in one behaviour of SpecRollup
MaxSeriesEvents == 2  \* events appended in one behaviour of SpecSeries
MaxRollups      == 2  \* updateDailyStats calls in one behaviour
MaxDays         == 7  \* largest ?days= a time-series request carries

\* a day is observed at its first and at its last millisecond
DayInstants == {"00:00:00.000", "23:59:59.999"}
TicksPerDay == Cardinality(DayInstants)

Day(t)        == t \div TicksPerDay
\* setHours(0, 0, 0, 0) and setHours(23, 59, 59, 999)
StartOfDay(t) == Day(t) * TicksPerDay
EndOfDay(t)   == StartOfDay(t) + TicksPerDay - 1

\* analyticsSchema.type enum
EventTypes == {"page_view", "contact_form", "gallery_view", "review_submission", "admin_login"}

NoPage == <<>>      \* page absent
NoIp   == "none"    \* ipAddress absent
Home   == <<"/", "home">>

\* the (type, page, ipAddress) triples events are recorded with
EventShapes ==
    {[type |-> "page_view",         page |-> Home,    ip |-> "10.0.0.1"],
     [type |-> "page_view",         page |-> Home,    ip |-> "10.0.0.2"],
     [type |-> "page_view",         page |-> <<"/">>, ip |-> NoIp],
     [type |-> "page_view",         page |-> NoPage,  ip |-> NoIp],
     [type |-> "contact_form",      page |-> NoPage,  ip |-> "10.0.0.1"]}

\* the events of one visitor: a page view and a contact form from one address
OneVisitorShapes == {sh \in EventShapes : sh.ip = "10.0.0.1"}

EventKeys == [shape : EventShapes, at : 0..MaxNow]

RECURSIVE SumOver(_, _)
SumOver(S, f) ==
    IF S = {} THEN 0
    ELSE LET x == CHOOSE y \in S : TRUE IN f[x] + SumOver(S \ {x}, f)

\* a $match without the createdAt window
CountInAnyTime(log, shape, from, to) ==
    SumOver({k \in EventKeys : k.shape = shape}, log)

\* { createdAt: { $gte: from, $lte: to } } on one (type, page, ip) group
CountIn(log, shape, from, to) ==
    SumOver({k \in EventKeys : k.shape = shape /\ k.at >= from /\ k.at <= to}, log)

\* ------------------------------------------------ SiteStats.updateDailyStats
\* the $match / $group pipeline: one row per (type, page, ip) seen in the window
AggregateDay(log, from, to) == {sh \in EventShapes : CountIn(log, sh, from, to) > 0}

\* String.prototype.replace('/', ''): the first "/" of the path is removed
RECURSIVE ReplaceFirstSlash(_)
ReplaceFirstSlash(path) ==
    IF path = <<>> THEN <<>>
    ELSE IF Head(path) = "/" THEN Tail(path)
    ELSE <<Head(path)>> \o ReplaceFirstSlash(Tail(path))

\* the path used as the byPage key as it was recorded
PageNameVerbatim(page) == page

\* item._id.page.replace('/', '') || 'home'
PageName(page) ==
    IF ReplaceFirstSlash(page) = <<>> THEN <<"home">> ELSE ReplaceFirstSlash(page)

\* siteStatsSchema.pageViews.byPage: the paths the strict schema keeps
SchemaPages ==
    {<<"home">>, <<"about">>, <<"gallery">>, <<"videos">>, <<"contact">>,
     <<"licenses">>, <<"associations">>}

\* the forEach over dailyData, and the two visitor counts after it
StatsUpdate(log, from, to) ==
    LET rows       == AggregateDay(log, from, to)
        count      == [sh \in EventShapes |-> CountIn(log, sh, from, to)]
        ofType(t)  == {sh \in rows : sh.type = t}
        paged      == {sh \in ofType("page_view") : sh.page # NoPage}
        names      == {PageName(sh.page) : sh \in paged}
    IN  [date         |-> from,
         visitors     |-> [unique |-> Cardinality({sh.ip : sh \in rows} \ {NoIp}),
                           total  |-> Cardinality(rows)],
         pageViews    |-> [total  |-> SumOver(ofType("page_view"), count),
                           byPage |-> [n \in names |->
                                         SumOver({sh \in paged : PageName(sh.page) = n}, count)]],
         contactForms |-> SumOver(ofType("contact_form"), count),
         galleryViews |-> SumOver(ofType("gallery_view"), count),
         reviews      |-> SumOver(ofType("review_submission"), count)]

\* the document findOneAndUpdate stores for `upd`: a $set of every field of the
\* update, byPage cut down to the paths of the strict schema
StoredStats(upd) ==
    [upd EXCEPT !.pageViews.byPage =
        [n \in (DOMAIN upd.pageViews.byPage) \cap SchemaPages |-> upd.pageViews.byPage[n]]]

DocsFor(date) == {d \in siteStats : d.date = date}

\* an upsert that adds the new counts onto the stored ones ($inc) instead of
\* replacing them
UpsertAccumulating(upd) ==
    IF DocsFor(upd.date) = {}
    THEN siteStats \cup {StoredStats(upd)}
    ELSE LET old == CHOOSE d \in DocsFor(upd.date) : TRUE
         IN  (siteStats \ {old}) \cup
                {[StoredStats(upd) EXCEPT
                    !.pageViews.total = old.pageViews.total + upd.pageViews.total,
                    !.contactForms    = old.contactForms + upd.contactForms]}

\* findOneAndUpdate({ date: startOfDay }, statsUpdate, { upsert: true, new: true })
Upsert(upd) ==
    IF DocsFor(upd.date) = {}
    THEN siteStats \cup {StoredStats(upd)}
    ELSE LET old == CHOOSE d \in DocsFor(upd.date) : TRUE
         IN  (siteStats \ {old}) \cup {StoredStats(upd)}

RollupWorkers == {1}
NoRollup == [pc |-> "idle"]
NoLog    == [date |-> -1, repeat |-> FALSE, before |-> {}, conflict |-> FALSE]
NoSeries == [pc |-> "idle"]

\* a request is forgotten once its answer has been sent
Answered(req) == IF req.pc = "done" THEN NoSeries ELSE req

\* Analytics.create / trackPageView / trackContactForm: one event appended,
\* stamped createdAt = now
TrackEvent ==
    \E sh \in budget.shapes :
        /\ budget.events > 0
        /\ budget' = [budget EXCEPT !.events = @ - 1]
        /\ events' = [events EXCEPT ![[shape |-> sh, at |-> now]] = @ + 1]
        /\ fresh' = fresh \ {StartOfDay(now)}
        /\ rollups' = [w \in DOMAIN rollups |->
                         IF rollups[w].pc # "idle" /\ rollups[w].stats.date = StartOfDay(now)
                         THEN [rollups[w] EXCEPT !.sawCurrent = FALSE]
                         ELSE rollups[w]]
        /\ rollupLog' = NoLog
        /\ series' = Answered(series)
        /\ UNCHANGED <<siteStats, now, funnelVars, codeVars>>

Tick ==
    /\ now < MaxNow
    /\ now' = now + 1
    /\ rollupLog' = NoLog
    /\ series' = Answered(series)
    /\ UNCHANGED <<events, siteStats, budget, rollups, fresh, funnelVars, codeVars>>

\* updateDailyStats(date) up to the end of its aggregation
RollupStart(w) ==
    \E date \in 0..MaxNow :
        /\ rollups[w].pc = "idle"
        /\ budget.rollups > 0
        /\ budget' = [budget EXCEPT !.rollups = @ - 1]
        /\ rollups' = [rollups EXCEPT ![w] =
              [pc |-> "write", sawCurrent |-> TRUE,
               stats |-> StatsUpdate(events, StartOfDay(date), EndOfDay(date))]]
        /\ rollupLog' = NoLog
        /\ UNCHANGED <<events, siteStats, now, fresh, series, funnelVars, codeVars>>

\* a collection without the unique index on date
NoDateIndex(date) == TRUE

\* siteStatsSchema.date: { unique: true }: an insert is let in when no stored
\* document holds its date
DateIndexAllows(date) == DocsFor(date) = {}

\* the dates whose stored document is computed from the log as it stands,
\* once `me` has written its document
Freshened(me) ==
    IF me.sawCurrent THEN fresh \cup {me.stats.date} ELSE fresh \ {me.stats.date}

\* the findOneAndUpdate that ends updateDailyStats: the document of the date
\* is replaced where it stands; when the query matches none, the upsert goes
\* on to insert one
RollupWrite(w) ==
    LET me == rollups[w]
    IN  /\ me.pc = "write"
        /\ IF DocsFor(me.stats.date) # {}
           THEN /\ siteStats' = Upsert(me.stats)
                /\ fresh' = Freshened(me)
                /\ rollupLog' = [date     |-> me.stats.date,
                                 repeat   |-> me.sawCurrent /\ me.stats.date \in fresh,
                                 before   |-> DocsFor(me.stats.date),
                                 conflict |-> FALSE]
                /\ rollups' = [rollups EXCEPT ![w] = NoRollup]
           ELSE /\ rollups' = [rollups EXCEPT ![w] = [me EXCEPT !.pc = "insert"]]
                /\ rollupLog' = NoLog
                /\ UNCHANGED <<siteStats, fresh>>
        /\ UNCHANGED <<events, now, budget, series, funnelVars, codeVars>>

\* the insert of an upsert that matched nothing. When another upsert stored
\* the date in the meantime the unique index refuses it: the server either
\* runs the operation again, now as an update, or the call throws E11000
RollupInsert(w) ==
    \E retried \in BOOLEAN :
        LET me == rollups[w]
        IN  /\ me.pc = "insert"
            /\ IF DateIndexAllows(me.stats.date)
               THEN /\ siteStats' = siteStats \cup {StoredStats(me.stats)}
                    /\ fresh' = Freshened(me)
               ELSE IF retried
               THEN /\ siteStats' = Upsert(me.stats)
                    /\ fresh' = Freshened(me)
               ELSE UNCHANGED <<siteStats, fresh>>
            /\ rollupLog' = [date     |-> me.stats.date,
                             repeat   |-> me.sawCurrent /\ me.stats.date \in fresh,
                             before   |-> DocsFor(me.stats.date),
                             conflict |-> DocsFor(me.stats.date) # {}]
            /\ rollups' = [rollups EXCEPT ![w] = NoRollup]
            /\ UNCHANGED <<events, now, budget, series, funnelVars, codeVars>>

InitAnalytics ==
    /\ events = [k \in EventKeys |-> 0]
    /\ siteStats = {}
    /\ now = 0
    /\ rollups = [w \in RollupWorkers |-> NoRollup]
    /\ fresh = {}
    /\ rollupLog = NoLog
    /\ series = NoSeries
    /\ partners = <<>> /\ leads = <<>> /\ procs = <<>> /\ quota = 0
    /\ resp = NoResp /\ ledgerCalls = <<>>
    /\ genName = <<>> /\ genRandom = <<>> /\ genCode = NoCode
    /\ rateStats = <<>> /\ rateOut = <<>>
    /\ AuxOff

InitRollup ==
    /\ InitAnalytics
    /\ budget = [events |-> MaxEvents, rollups |-> MaxRollups, shapes |-> EventShapes]

NextRollup ==
    \/ TrackEvent
    \/ Tick
    \/ \E w \in RollupWorkers : RollupStart(w)
    \/ \E w \in RollupWorkers : RollupWrite(w)
    \/ \E w \in RollupWorkers : RollupInsert(w)

SpecRollup == InitRollup /\ [][NextRollup]_vars

\* --------------------------------------------------------- getTimeSeriesData
\* req.query.type: 'all', each type the log holds, and one it never holds
SeriesTypes == {"all"} \cup {sh.type : sh \in EventShapes} \cup {"admin_login"}

\* the $match stage: createdAt >= startDate, and the type when one is asked for
Matched(log, start, type) ==
    {k \in EventKeys : /\ log[k] > 0
                       /\ k.at >= start
                       /\ (type # "all" => k.shape.type = type)}

\* the two $group stages: per date, a count per type and the total
TimeSeriesAggregate(log, start, type) ==
    LET rows     == Matched(log, start, type)
        on(d)    == {k \in rows : Day(k.at) = d}
    IN  [d \in {Day(k.at) : k \in rows} |->
            [byType |-> [t \in {k.shape.type : k \in on(d)} |->
                           SumOver({k \in on(d) : k.shape.type = t}, log)],
             total  |-> SumOver(on(d), log)]]

ZeroEntry(d) == [date |-> d, byType |-> [t \in EventTypes |-> 0], total |-> 0]

\* one pass of the gap-filling loop body
FilledEntry(d, data) ==
    IF d \in DOMAIN data
    THEN [date |-> d, byType |-> data[d].byType, total |-> data[d].total]
    ELSE ZeroEntry(d)

\* the loop with the bound reversed to stop before endDate
RECURSIVE FillUpToExclusive(_, _, _)
FillUpToExclusive(current, end, data) ==
    IF current < end
    THEN <<FilledEntry(Day(current), data)>> \o FillUpToExclusive(current + TicksPerDay, end, data)
    ELSE <<>>

\* while (currentDate <= endDate) { push; currentDate.setDate(getDate() + 1) }
RECURSIVE FilledData(_, _, _)
FilledData(current, end, data) ==
    IF current <= end
    THEN <<FilledEntry(Day(current), data)>> \o FilledData(current + TicksPerDay, end, data)
    ELSE <<>>


\* getTimeSeriesData up to the end of its aggregation
SeriesRequest ==
    \E days \in 0..MaxDays, type \in SeriesTypes :
        LET startDate == now - days * TicksPerDay
        IN  /\ series.pc = "idle"
            /\ series' = [pc |-> "await", days |-> days, type |-> type,
                          startDate |-> startDate, asked |-> now, log |-> events,
                          data |-> TimeSeriesAggregate(events, startDate, type)]
            /\ UNCHANGED <<events, siteStats, now, budget, rollups, fresh, rollupLog,
                           funnelVars, codeVars>>

\* the rest of getTimeSeriesData: endDate is read after the await
SeriesRespond ==
    /\ series.pc = "await"
    /\ series' = [pc |-> "done", days |-> series.days, type |-> series.type,
                  startDate |-> series.startDate, asked |-> series.asked,
                  log |-> series.log,
                  data |-> series.data, endDate |-> now,
                  timeSeries |-> FilledData(series.startDate, now, series.data)]
    /\ UNCHANGED <<events, siteStats, now, budget, rollups, fresh, rollupLog,
                   funnelVars, codeVars>>

InitSeries ==
    /\ InitAnalytics
    /\ budget = [events |-> MaxSeriesEvents, rollups |-> 0, shapes |-> OneVisitorShapes]

NextSeries ==
    \/ TrackEvent
    \/ Tick
    \/ SeriesRequest
    \/ SeriesRespond

SpecSeries == InitSeries /\ [][NextSeries]_vars

\* ========================================================== conversionRate
MaxCount == 9   \* largest totalLeads / totalBookings a partner is read with

\* Number.prototype.toFixed(2): the decimal string of the value rounded to the
\* nearest hundredth, kept as its number of hundredths. num / den is the exact
\* value; a tie (which needs den to be a multiple of 32) rounds up
ToFixed2(num, den) ==
    [type |-> "string", hundredths |-> (2 * 100 * num + den) \div (2 * den)]

\* the number n, as JSON carries a JavaScript number
Number(n) == [type |-> "number", hundredths |-> 100 * n]

NoRate == [type |-> "undefined", hundredths |-> 0]

\* a getter that cuts the quotient off after two decimals
conversionRateTruncated(stats) ==
    IF stats.totalLeads = 0 THEN Number(0)
    ELSE [type |-> "string",
          hundredths |-> (100 * 100 * stats.totalBookings) \div stats.totalLeads]

\* partnerSchema.virtual('conversionRate').get
conversionRate(stats) ==
    IF stats.totalLeads = 0 THEN Number(0)
    ELSE ToFixed2(stats.totalBookings * 100, stats.totalLeads)

InitRate ==
    /\ rateStats \in [totalLeads : 0..MaxCount, totalTours : {0}, totalBookings : 0..MaxCount]
    /\ rateOut = NoRate
    /\ AuxOff
    /\ genName = <<>> /\ genRandom = <<>> /\ genCode = NoCode
    /\ partners = <<>> /\ leads = <<>> /\ procs = <<>> /\ quota = 0
    /\ resp = <<>> /\ ledgerCalls = <<>>
    /\ events = <<>> /\ siteStats = {} /\ now = 0 /\ budget = <<>>
    /\ rollups = <<>> /\ fresh = {} /\ rollupLog = <<>> /\ series = <<>>

\* partner.conversionRate read once (toJSON: { virtuals: true })
ReadConversionRate ==
    /\ rateOut = NoRate
    /\ rateOut' = conversionRate(rateStats)
    /\ UNCHANGED <<rateStats, genName, genRandom, genCode, auxVars, funnelVars, rollupVars>>

NextRate == ReadConversionRate

SpecRate == InitRate /\ [][NextRate]_vars

\* ------------------------------------------- updateDailyStats calls in parallel
MaxParEvents  == 2  \* events appended in one behaviour of SpecRollupPar
MaxParRollups == 2  \* updateDailyStats calls in one behaviour of SpecRollupPar

\* two updateDailyStats calls may be in flight together
ParWorkers == {1, 2}

InitRollupPar ==
    /\ events = [k \in EventKeys |-> 0]
    /\ siteStats = {}
    /\ now = 0
    /\ rollups = [w \in ParWorkers |-> NoRollup]
    /\ fresh = {}
    /\ rollupLog = NoLog
    /\ series = NoSeries
    /\ budget = [events |-> MaxParEvents, rollups |-> MaxParRollups,
                 shapes |-> OneVisitorShapes]
    /\ partners = <<>> /\ leads = <<>> /\ procs = <<>> /\ quota = 0
    /\ resp = NoResp /\ ledgerCalls = <<>>
    /\ genName = <<>> /\ genRandom = <<>> /\ genCode = NoCode
    /\ rateStats = <<>> /\ rateOut = <<>>
    /\ AuxOff

NextRollupPar ==
    \/ TrackEvent
    \/ Tick
    \/ \E w \in ParWorkers : RollupStart(w)
    \/ \E w \in ParWorkers : RollupWrite(w)
    \/ \E w \in ParWorkers : RollupInsert(w)

SpecRollupPar == InitRollupPar /\ [][NextRollupPar]_vars

\* ================================================================== reviews
MaxReviews == 3   \* reviews the store may hold

\* req.body.rating; validateReview lets 1..5 through
Ratings == 0..5

NoReviewReq == [pc |-> "idle"]

\* the handlers, the ledger, the code generator and the rollup are not running
CoreOff ==
    /\ partners = <<>> /\ leads = <<>> /\ procs = <<>> /\ quota = 0
    /\ resp = <<>> /\ ledgerCalls = <<>>
    /\ genName = <<>> /\ genRandom = <<>> /\ genCode = NoCode
    /\ rateStats = <<>> /\ rateOut = <<>>
    /\ events = <<>> /\ siteStats = {} /\ now = 0 /\ budget = <<>>
    /\ rollups = <<>> /\ fresh = {} /\ rollupLog = <<>> /\ series = <<>>

coreVars == <<funnelVars, genName, genRandom, genCode, rateStats, rateOut, rollupVars>>

\* reviewController.js:68-75  validationResult(req): 400 when it has errors
ReviewRequest ==
    \E rating \in Ratings :
        /\ reviewReq.pc \in {"idle", "done"}
        /\ Len(reviews) < MaxReviews
        /\ reviewReq' = IF rating \in 1..5
                        THEN [pc |-> "create", rating |-> rating]
                        ELSE [pc |-> "done", status |-> 400, at |-> "validation", id |-> 0,
                              rating |-> rating]
        /\ UNCHANGED <<reviews, reviewEvents, removed, breakdownVars, agentVars, coreVars>>

\* reviewController.js:88-99  await Review.create({...}); a rejection reaches
\* asyncHandler's next(error)
ReviewCreate ==
    \E fails \in BOOLEAN :
        /\ reviewReq.pc = "create"
        /\ IF fails
           THEN /\ reviewReq' = [pc |-> "done", status |-> 500, at |-> "Review.create", id |-> 0,
                                 rating |-> reviewReq.rating]
                /\ UNCHANGED reviews
           ELSE /\ reviews' = Append(reviews, [rating |-> reviewReq.rating, status |-> "pending"])
                /\ reviewReq' = [pc |-> "track", rating |-> reviewReq.rating,
                                 id |-> Len(reviews) + 1]
        /\ UNCHANGED <<reviewEvents, removed, breakdownVars, agentVars, coreVars>>

\* reviewController.js:101-116  await Analytics.create({...}), then 201; a
\* rejection of the awaited write reaches asyncHandler's next(error)
ReviewTrack ==
    \E throws \in BOOLEAN :
        /\ reviewReq.pc = "track"
        /\ IF throws
           THEN /\ reviewReq' = [pc |-> "done", status |-> 500, at |-> "Analytics.create",
                                 id |-> reviewReq.id, rating |-> reviewReq.rating]
                /\ UNCHANGED reviewEvents
           ELSE /\ reviewEvents' = Append(reviewEvents,
                                      [type |-> "review_submission", reviewId |-> reviewReq.id,
                                       rating |-> reviewReq.rating])
                /\ reviewReq' = [pc |-> "done", status |-> 201, at |-> "response",
                                 id |-> reviewReq.id, rating |-> reviewReq.rating]
        /\ UNCHANGED <<reviews, removed, breakdownVars, agentVars, coreVars>>

InitReview ==
    /\ reviews = <<>>
    /\ reviewEvents = <<>>
    /\ reviewReq = NoReviewReq
    /\ removed = {}
    /\ BreakdownOff /\ AgentOff
    /\ CoreOff

NextReview ==
    \/ ReviewRequest
    \/ ReviewCreate
    \/ ReviewTrack

SpecReview == InitReview /\ [][NextReview]_vars

\* =========================================================== administration
MaxAdminRequests == 4   \* requests accepted in one behaviour of SpecAdmin

\* the { name, type, email, active } bodies updatePartner receives; a name
\* that is absent or empty is falsy
NoName == <<>>
UpdateBodies ==
    {[name |-> NoName,            type |-> Undefined, email |-> Undefined, active |-> "true"],
     [name |-> NoName,            type |-> Undefined, email |-> Undefined, active |-> "false"],
     [name |-> <<"J", "-", "a">>, type |-> "vendor",  email |-> Undefined, active |-> Undefined],
     [name |-> NoName,            type |-> Undefined, email |-> "b@x.io",  active |-> Undefined]}

\* partnerController.js:340-347  the fields the body carries are assigned
Edited(doc, body) ==
    [doc EXCEPT
        !.name   = IF body.name   # NoName    THEN body.name   ELSE @,
        !.type   = IF body.type   # Undefined THEN body.type   ELSE @,
        !.email  = IF body.email  # Undefined THEN body.email  ELSE @,
        !.active = IF body.active # Undefined THEN CastBoolean(body.active) ELSE @]

\* partnerController.js:314-338  findById, 404, and the e-mail lookup
UpdateRequest(p) ==
    \E id \in 1..MaxPartners, body \in UpdateBodies :
        /\ Accept(p)
        /\ IF id \notin 1..Len(partners)
           THEN Finish(p, [op |-> "update", status |-> 404])
           ELSE IF /\ body.email # Undefined
                   /\ body.email # partners[id].email
                   /\ PartnersWithEmail(body.email) \ {id} # {}
           THEN Finish(p, [op |-> "update", status |-> 400, error |-> "email exists"])
           ELSE Goto(p, [op |-> "update", pc |-> "save", id |-> id, body |-> body,
                         doc |-> partners[id]])
        /\ UNCHANGED <<partners, leads, ledgerCalls, codeVars, rollupVars>>

\* partnerController.js:340-370  the assignments, await partner.save(), then
\* 200; a validation error answers 400 and any other error 500
UpdateSave(p) ==
    \E frac \in HookFracs, fails \in BOOLEAN :
        LET me  == procs[p]
            doc == PreSave(Edited(me.doc, me.body), frac)
        IN  /\ me.op = "update" /\ me.pc = "save"
            /\ IF fails
               THEN /\ UNCHANGED partners
                    /\ Finish(p, [op |-> "update", status |-> 400, error |-> "ValidationError"])
               ELSE IF PartnersWithEmail(doc.email) \ {me.id} # {}
               THEN /\ UNCHANGED partners
                    /\ Finish(p, [op |-> "update", status |-> 500, error |-> "E11000"])
               ELSE /\ partners' = [partners EXCEPT ![me.id] = SavedPartner(@, me.doc, doc)]
                    /\ Finish(p, [op |-> "update", status |-> 200, id |-> me.id,
                                  body |-> me.body, before |-> partners[me.id]])
            /\ UNCHANGED <<leads, quota, ledgerCalls, codeVars, rollupVars>>

\* req.body.status of updateContactStatus
StatusInputs == {"archived", "spam"}

\* what the handlers of the Contact collection leave alone
contactFrame == <<partners, ledgerCalls, genName, genRandom, genCode, rateStats, rateOut,
                  reviewVars, breakdownVars, agentVars, rollupVars>>

\* an update that replaces the document by { status }, the schema defaults
\* filling every other path
ContactStatusReplace(p) ==
    \E id \in 1..MaxLeads, status \in StatusInputs :
        /\ Accept(p)
        /\ procs' = procs
        /\ IF status \notin {"new", "read", "replied", "archived"}
           THEN /\ resp' = [op |-> "status", status |-> 400]
                /\ UNCHANGED leads
           ELSE IF ~ContactFound(id)
           THEN /\ resp' = [op |-> "status", status |-> 404]
                /\ UNCHANGED leads
           ELSE /\ leads' = [leads EXCEPT ![id] =
                                [refSource |-> Null, refCode |-> NoRef, utm |-> Null,
                                 status |-> status, tourScheduled |-> FALSE, booked |-> FALSE]]
                /\ resp' = [op |-> "status", status |-> 200, id |-> id, before |-> leads[id]]
        /\ UNCHANGED <<removed, contactFrame>>

\* contactController.js:240-271  updateContactStatus: the status check, then
\* findByIdAndUpdate(id, { status })
ContactStatusUpdate(p) ==
    \E id \in 1..MaxLeads, status \in StatusInputs :
        /\ Accept(p)
        /\ procs' = procs
        /\ IF status \notin {"new", "read", "replied", "archived"}
           THEN /\ resp' = [op |-> "status", status |-> 400]
                /\ UNCHANGED leads
           ELSE IF ~ContactFound(id)
           THEN /\ resp' = [op |-> "status", status |-> 404]
                /\ UNCHANGED leads
           ELSE /\ leads' = [leads EXCEPT ![id].status = status]
                /\ resp' = [op |-> "status", status |-> 200, id |-> id, before |-> leads[id]]
        /\ UNCHANGED <<removed, contactFrame>>

\* contactController.js:211-235  getContactSubmission: findById, and a new
\* submission is saved as read
ContactView(p) ==
    \E id \in 1..MaxLeads :
        /\ Accept(p)
        /\ procs' = procs
        /\ IF ~ContactFound(id)
           THEN /\ resp' = [op |-> "view", status |-> 404]
                /\ UNCHANGED leads
           ELSE /\ leads' = IF leads[id].status = "new"
                            THEN [leads EXCEPT ![id].status = "read"]
                            ELSE leads
                /\ resp' = [op |-> "view", status |-> 200, id |-> id, before |-> leads[id]]
        /\ UNCHANGED <<removed, contactFrame>>

\* contactController.js:276-294  deleteContactSubmission: findByIdAndDelete
ContactDelete(p) ==
    \E id \in 1..MaxLeads :
        /\ Accept(p)
        /\ procs' = procs
        /\ IF ~ContactFound(id)
           THEN /\ resp' = [op |-> "remove", status |-> 404]
                /\ UNCHANGED removed
           ELSE /\ removed' = removed \cup {id}
                /\ resp' = [op |-> "remove", status |-> 200, id |-> id]
        /\ UNCHANGED <<leads, contactFrame>>

AdminStep(p) ==
    \/ UpdateRequest(p)
    \/ UpdateSave(p)
    \/ ContactStatusUpdate(p)
    \/ ContactView(p)
    \/ ContactDelete(p)

InitAdmin == InitStores /\ quota = MaxAdminRequests

\* the public and the admin handlers, one request at a time
NextAdmin == Step(1) \/ AdminStep(1)

SpecAdmin == InitAdmin /\ [][NextAdmin]_vars

\* ============================================================== user agents
MaxAgentTokens == 3   \* product tokens in a user agent string

\* the words a user agent string is made of; "android" is spelled in lower
\* case as some clients send it
AgentTokens == {"Mozilla", "Mobile", "android", "iPhone", "iPad", "Tablet",
                "Chrome", "Firefox", "Safari", "Edge"}

ToLowerToken ==
    [w \in AgentTokens |->
        CASE w = "Mozilla" -> "mozilla" [] w = "Mobile"  -> "mobile"
          [] w = "android" -> "android" [] w = "iPhone"  -> "iphone"
          [] w = "iPad"    -> "ipad"    [] w = "Tablet"  -> "tablet"
          [] w = "Chrome"  -> "chrome"  [] w = "Firefox" -> "firefox"
          [] w = "Safari"  -> "safari"  [] w = "Edge"    -> "edge"]

\* a user agent is the set of words it contains
UserAgents == {ua \in SUBSET AgentTokens : Cardinality(ua) <= MaxAgentTokens}

\* $regexMatch with /a|b|c/i: some alternative occurs in the input, whatever its case
RegexMatch(ua, alternatives) == \E w \in ua : ToLowerToken[w] \in alternatives

\* a projection that tests the tablet pattern first
deviceTypeTabletFirst(ua) ==
    IF RegexMatch(ua, {"ipad", "tablet"}) THEN "tablet"
    ELSE IF RegexMatch(ua, {"mobile", "android", "iphone"}) THEN "mobile"
    ELSE "desktop"

\* galleryController.js:430-442  the nested $cond of deviceType
deviceType(ua) ==
    IF RegexMatch(ua, {"mobile", "android", "iphone"}) THEN "mobile"
    ELSE IF RegexMatch(ua, {"ipad", "tablet"}) THEN "tablet"
    ELSE "desktop"

\* galleryController.js:443-466  the nested $cond of browser
browser(ua) ==
    IF RegexMatch(ua, {"chrome"}) THEN "chrome"
    ELSE IF RegexMatch(ua, {"firefox"}) THEN "firefox"
    ELSE IF RegexMatch(ua, {"safari"}) THEN "safari"
    ELSE IF RegexMatch(ua, {"edge"}) THEN "edge"
    ELSE "other"

NoClass == [deviceType |-> "?", browser |-> "?"]

InitAgent ==
    /\ agent \in UserAgents
    /\ agentClass = NoClass
    /\ ReviewsOff /\ removed = {} /\ BreakdownOff
    /\ CoreOff

\* the $project stage applied to one document
Classify ==
    /\ agentClass = NoClass
    /\ agentClass' = [deviceType |-> deviceType(agent), browser |-> browser(agent)]
    /\ UNCHANGED <<agent, reviewVars, removed, breakdownVars, coreVars>>

NextAgent == Classify

SpecAgent == InitAgent /\ [][NextAgent]_vars

\* =============================================================== breakdowns
MaxViews == 2   \* events one page, or one user agent, has in the window

\* Number.prototype.toFixed(1): the decimal string of num / den rounded to the
\* nearest tenth, kept as its number of tenths
ToFixed1(num, den) ==
    [type |-> "string", tenths |-> (2 * 10 * num + den) \div (2 * den)]

\* the number 0 of the `: 0` branch
ZeroPercent == [type |-> "number", tenths |-> 0]

\* the page of a page_view event: two paths, and no page at all
PageKeys == {Home, <<"/">>, NoPage}

\* the userAgent of an event: a phone, a tablet, a desktop browser, and none
NoAgent == {}
SampleAgents == {{"Mozilla", "iPhone", "Mobile", "Safari"},
                 {"Mozilla", "iPad", "Safari"},
                 {"Mozilla", "Chrome", "Safari"},
                 NoAgent}

\* percentages taken over every page_view of the window, paged or not
PagesOfAllViews(log) ==
    LET grouped == {pg \in DOMAIN log : pg # NoPage /\ log[pg] > 0}
        all     == SumOver(DOMAIN log, log)
    IN  {[page |-> pg, views |-> log[pg],
          percentage |-> IF all > 0 THEN ToFixed1(log[pg] * 100, all) ELSE ZeroPercent]
            : pg \in grouped}

\* galleryController.js:361-395  $match page exists and is not null, $group by
\* page, totalViews = the sum of the groups' views, and each group's percentage
PagesWithPercentage(log) ==
    LET grouped    == {pg \in DOMAIN log : pg # NoPage /\ log[pg] > 0}
        totalViews == SumOver(grouped, log)
    IN  {[page |-> pg, views |-> log[pg],
          percentage |-> IF totalViews > 0 THEN ToFixed1(log[pg] * 100, totalViews)
                         ELSE ZeroPercent]
            : pg \in grouped}

\* galleryController.js:498-524  the documents of each class counted, and each
\* class's share of the documents the aggregation returned
ClassBreakdown(log, classOf(_), classes) ==
    LET matched == {ua \in DOMAIN log : ua # NoAgent /\ log[ua] > 0}
        total   == SumOver(matched, log)
        count   == [c \in classes |-> SumOver({ua \in matched : classOf(ua) = c}, log)]
    IN  {[name |-> c, value |-> count[c], percentage |-> ToFixed1(count[c] * 100, total)]
            : c \in {x \in classes : count[x] > 0}}

DeviceClasses  == {"mobile", "tablet", "desktop"}
BrowserClasses == {"chrome", "firefox", "safari", "edge", "other"}

NoPagesOut  == [done |-> FALSE, pages |-> {}]
NoDevicesOut == [done |-> FALSE, devices |-> {}, browsers |-> {}]

InitBreakdown ==
    /\ pageLog \in [PageKeys -> 0..MaxViews]
    /\ uaLog \in [SampleAgents -> 0..MaxViews]
    /\ pageOut = NoPagesOut
    /\ deviceOut = NoDevicesOut
    /\ ReviewsOff /\ removed = {} /\ AgentOff
    /\ CoreOff

\* galleryController.js:354-408  getPageAnalytics
GetPageAnalytics ==
    /\ ~pageOut.done
    /\ pageOut' = [done |-> TRUE, pages |-> PagesWithPercentage(pageLog)]
    /\ UNCHANGED <<pageLog, uaLog, deviceOut, reviewVars, removed, agentVars, coreVars>>

\* galleryController.js:412-536  getDeviceAnalytics: empty arrays when the
\* aggregation returns nothing, else the two breakdowns
GetDeviceAnalytics ==
    /\ ~deviceOut.done
    /\ deviceOut' =
          IF \A ua \in DOMAIN uaLog : ua = NoAgent \/ uaLog[ua] = 0
          THEN [done |-> TRUE, devices |-> {}, browsers |-> {}]
          ELSE [done |-> TRUE,
                devices  |-> ClassBreakdown(uaLog, deviceType, DeviceClasses),
                browsers |-> ClassBreakdown(uaLog, browser, BrowserClasses)]
    /\ UNCHANGED <<pageLog, uaLog, pageOut, reviewVars, removed, agentVars, coreVars>>

NextBreakdown ==
    \/ GetPageAnalytics
    \/ GetDeviceAnalytics

SpecBreakdown == InitBreakdown /\ [][NextBreakdown]_vars

\* ------------------------------------------- the handlers when nothing fails
\* no store operation has thrown in the request being handled or answered last
Healthy ==
    /\ resp.status # 500
    /\ "threw" \in DOMAIN resp => ~resp.threw
    /\ \A p \in DOMAIN procs : "threw" \in DOMAIN procs[p] => ~procs[p].threw

\* partnerController.js:219-229  the counts getPartners recomputes from the
\* Contact collection for the partner holding `code`
leadCount(code) ==
    Cardinality({i \in 1..Len(leads) : i \notin removed /\ leads[i].refCode = code})
tourCount(code) ==
    Cardinality({i \in 1..Len(leads) : /\ i \notin removed /\ leads[i].refCode = code
                                       /\ leads[i].tourScheduled})
bookingCount(code) ==
    Cardinality({i \in 1..Len(leads) : /\ i \notin removed /\ leads[i].refCode = code
                                       /\ leads[i].booked})

\* the steps of SpecAdmin in which every store operation succeeds
NextAdminOk ==
    \/ CreateRequest(1) /\ Healthy'
    \/ CreateHookAttempt(1) /\ Healthy'
    \/ CreateInsert(1) /\ Healthy'
    \/ DeleteRequest(1) /\ Healthy'
    \/ DeleteSave(1) /\ Healthy'
    \/ SubmitRequest(1) /\ Healthy'
    \/ SubmitLookup(1) /\ Healthy'
    \/ SubmitLedger(1) /\ Healthy'
    \/ SubmitCreate(1) /\ Healthy'
    \/ FunnelRequest(1) /\ Healthy'
    \/ FunnelTourLookup(1) /\ Healthy'
    \/ FunnelTourLedger(1) /\ Healthy'
    \/ FunnelBookLookup(1) /\ Healthy'
    \/ FunnelBookLedger(1) /\ Healthy'
    \/ FunnelSave(1) /\ Healthy'
    \/ UpdateRequest(1) /\ Healthy'
    \/ UpdateSave(1) /\ Healthy'
    \/ ContactStatusUpdate(1) /\ Healthy'
    \/ ContactView(1) /\ Healthy'
    \/ ContactDelete(1) /\ Healthy'

SpecAdminOk == InitAdmin /\ [][NextAdminOk]_vars

\* ------------------------------- deactivation and reactivation under traffic
MaxLiveRequests == 3   \* requests accepted in one behaviour of SpecDeactivate

\* a partner created earlier, with no lead yet
StoredPartner ==
    NewPartner([code  |-> generatePartnerCode(<<"j", "a">>, Rep("7", 3)),
                name  |-> <<"j", "a">>, type |-> "affiliate", email |-> "a@x.io"])

InitDeactivate ==
    /\ partners = <<StoredPartner>>
    /\ ledgerCalls = <<[lead |-> 0, tour |-> 0, booking |-> 0]>>
    /\ leads = <<>>
    /\ procs = [p \in Procs |-> Idle]
    /\ resp = NoResp
    /\ quota = MaxLiveRequests
    /\ genName = <<>> /\ genRandom = <<>> /\ genCode = NoCode
    /\ rateStats = <<>> /\ rateOut = <<>>
    /\ AuxOff
    /\ events = <<>> /\ siteStats = {} /\ now = 0 /\ budget = <<>>
    /\ rollups = <<>> /\ fresh = {} /\ rollupLog = <<>> /\ series = <<>>

\* the public handlers and the partner administration, interleaved at their awaits
NextDeactivate ==
    \E p \in Procs :
        \/ Step(p)
        \/ UpdateRequest(p)
        \/ UpdateSave(p)

SpecDeactivate == InitDeactivate /\ [][NextDeactivate]_vars

\* ================================================================== claims
\* the funnel call that has just answered 200 without a failed store
\* operation, on a lead whose stored refCode resolves to an active partner
FunnelCallDone ==
    /\ resp.op = "funnel"
    /\ resp.status = 200
    /\ ~resp.threw
    /\ resp.loaded.refCode # NoRef
    /\ resp.loaded.refSource # Null
    /\ findByCode(resp.loaded.refCode) # {}

\* C1: on a lead attributed to an active partner, updateContactLeadStatus with
\* tourScheduled=true adds exactly 1 to the partner's totalTours when the stored
\* tourScheduled was false, and nothing when it was already true (so two such
\* calls in a row add 1 in total).
C1_TourCountedExactlyOnce ==
    (FunnelCallDone /\ resp.tourScheduled = "true")
        => StatsOf(resp.loaded.refCode).totalTours =
              resp.pre.totalTours + (IF resp.loaded.tourScheduled THEN 0 ELSE 1)

\* C2: the call that moves booked from false to true adds exactly 1 to the
\* partner's totalBookings, and a call with booked=true on a lead whose stored
\* booked is already true adds nothing.
C2_BookingCountedExactlyOnce ==
    (FunnelCallDone /\ resp.booked = "true")
        => StatsOf(resp.loaded.refCode).totalBookings =
              resp.pre.totalBookings + (IF resp.loaded.booked THEN 0 ELSE 1)

\* the lead submission that has just answered 201 without a failed store
\* operation, carrying a refCode that resolves to an active partner
SubmitResolvedDone ==
    /\ resp.op = "submit"
    /\ resp.status = 201
    /\ ~resp.threw
    /\ resp.refCode # NoRef
    /\ findByCode(resp.refCode) # {}

\* C3: a lead submitted with a refCode that resolves to an active partner is
\* stored with refSource = the partner's type and refCode = the upper-cased
\* code (the partner's own code), and the partner's totalLeads goes up by 1.
C3_AttributionOnCreate ==
    SubmitResolvedDone =>
        \A k \in findByCode(resp.refCode) :
            /\ leads[resp.id].refSource = partners[k].type
            /\ leads[resp.id].refCode = ToUpperCase(resp.refCode)
            /\ leads[resp.id].refCode = partners[k].code
            /\ partners[k].totalLeads = resp.pre.totalLeads + 1

C3_Witness ==
    /\ SubmitResolvedDone
    /\ \E k \in findByCode(resp.refCode) : partners[k].totalLeads = 1

\* C4: no increment is lost: each partner counter equals the number of
\* updateStats calls of that kind that returned, under every interleaving.
C4_NoLostIncrement ==
    \A k \in 1..Len(partners) :
        /\ partners[k].totalLeads = ledgerCalls[k].lead
        /\ partners[k].totalTours = ledgerCalls[k].tour
        /\ partners[k].totalBookings = ledgerCalls[k].booking

\* C5: no two persisted partners share a code, in every reachable state.
C5_UniqueCodes ==
    \A i, j \in 1..Len(partners) : i # j => partners[i].code # partners[j].code

\* a creation that passed the pre-save findOne check and was then refused by
\* the unique index on code, because a concurrent creation wrote it first
C5_Witness ==
    /\ resp.op = "create"
    /\ resp.status = 400
    /\ resp.error = "E11000"
    /\ PartnersWithCode(resp.code) # {}
    /\ PartnersWithEmail(resp.email) = {}

Scenario(from) ==
    LET n(sh) == CountIn(events, sh, from, from + TicksPerDay - 1)
        pv(ip) == n([type |-> "page_view", page |-> Home, ip |-> ip])
    IN  /\ pv("10.0.0.1") > 0
        /\ pv("10.0.0.2") > 0
        /\ pv("10.0.0.1") + pv("10.0.0.2") = 3
        /\ n([type |-> "contact_form", page |-> NoPage, ip |-> "10.0.0.1"]) = 1
        /\ \A sh \in EventShapes :
              (sh.type = "page_view" /\ sh.page # Home) => n(sh) = 0

\* the stored documents that updateDailyStats computed from the log as it
\* stands, for a day holding the scenario
ScenarioDocs == {d \in siteStats : d.date \in fresh /\ Scenario(d.date)}

\* C7 (as stated): the scenario day rolls up to visitors.total = 4,
\* visitors.unique = 2, pageViews.total = 3, byPage.home = 3, contactForms = 1.
C7_ScenarioAsStated ==
    \A d \in ScenarioDocs :
        /\ d.visitors.total = 4
        /\ d.visitors.unique = 2
        /\ d.pageViews.total = 3
        /\ <<"home">> \in DOMAIN d.pageViews.byPage
        /\ d.pageViews.byPage[<<"home">>] = 3
        /\ d.contactForms = 1

\* C7 (amended): the scenario day, its contact form sent from one of the two
\* IPs, rolls up to visitors.total = 3 (one per grouped (type, page, ip) row:
\* two page_view rows and one contact_form row), visitors.unique = 2,
\* pageViews.total = 3, byPage.home = 3 and contactForms = 1.
C7_ScenarioRollup ==
    \A d \in ScenarioDocs :
        /\ d.visitors.total = 3
        /\ d.visitors.unique = 2
        /\ d.pageViews.total = 3
        /\ <<"home">> \in DOMAIN d.pageViews.byPage
        /\ d.pageViews.byPage[<<"home">>] = 3
        /\ d.contactForms = 1

C7_Witness == \E d \in ScenarioDocs : d.galleryViews = 0 /\ d.reviews = 0

\* C8: a time-series request with days=7 answers with exactly 7 entries,
\* whatever the event log holds.
C8_SevenDaysSevenEntries ==
    (series.pc = "done" /\ series.days = 7) => Len(series.timeSeries) = 7

\* the events of the log the request aggregated that match it on day d
MatchingOn(d) ==
    {k \in Matched(series.log, series.startDate, series.type) : Day(k.at) = d}

C11_RateIsExactQuotient ==
    rateOut # NoRate =>
        IF rateStats.totalLeads = 0 THEN rateOut = Number(0)
        ELSE /\ rateOut.type = "number"
             /\ rateOut.hundredths * rateStats.totalLeads
                    = 100 * 100 * rateStats.totalBookings

\* C11 (amended): conversionRate is the number 0 when totalLeads = 0 (nothing
\* is divided), and otherwise the two-decimal string of
\* totalBookings / totalLeads * 100 rounded to the nearest hundredth; 1 lead
\* and 1 booking give "100.00".
C11_RateIsRoundedQuotient ==
    rateOut # NoRate =>
        IF rateStats.totalLeads = 0 THEN rateOut = Number(0)
        ELSE LET err == rateOut.hundredths * rateStats.totalLeads
                            - 100 * 100 * rateStats.totalBookings
             IN  /\ rateOut.type = "string"
                 /\ 2 * err <= rateStats.totalLeads
                 /\ 2 * err >= 0 - rateStats.totalLeads
                 /\ (rateStats.totalLeads = 1 /\ rateStats.totalBookings = 1)
                        => rateOut.hundredths = 100 * 100

\* a rate that had to be rounded: 2 bookings out of 3 leads read as "66.67"
C11_Witness ==
    /\ rateStats.totalLeads = 3
    /\ rateStats.totalBookings = 2
    /\ rateOut = [type |-> "string", hundredths |-> 6667]

\* C12: every stored lead with a refCode was attributed to an active partner
\* at creation (its refSource is that partner's type), and a submission whose
\* refCode resolved to no active partner stores a lead with refCode and
\* refSource both null.
C12_RefCodeOnlyWhenResolved ==
    /\ \A i \in 1..Len(leads) : leads[i].refCode # NoRef => leads[i].refSource # Null
    /\ (resp.op = "submit" /\ resp.status = 201 /\ resp.refCode # NoRef /\ ~resp.resolved)
          => (leads[resp.id].refCode = NoRef /\ leads[resp.id].refSource = Null)

\* C13: a submission that passed validation answers 201 with its lead stored,
\* whether its refCode resolved, did not resolve, the partner lookup threw or
\* the ledger increment threw; the only other answer is the 500 of a failed
\* Contact.create, and no handler stops before reaching Contact.create.
C13_SubmitAlwaysPersists ==
    /\ (resp.op = "submit" /\ resp.status # 400) =>
          IF resp.status = 201
          THEN resp.id = Len(leads) /\ resp.id >= 1
          ELSE resp.status = 500 /\ resp.at = "Contact.create"
    /\ \A p \in Procs :
          procs[p].op = "submit" => procs[p].pc \in {"lookup", "ledger", "create"}

\* a lead stored and answered 201 although the ledger increment threw
C13_Witness ==
    /\ resp.op = "submit"
    /\ resp.status = 201
    /\ resp.resolved
    /\ resp.threw
    /\ leads[resp.id].refCode = ToUpperCase(resp.refCode)

\* C14: updateContactLeadStatus called with tourScheduled=true (and nothing
\* else) on a lead whose stored tourScheduled is already true leaves the
\* partner's totalLeads, totalTours and totalBookings as they were.
C14_RepeatedTourIsNoOp ==
    (/\ resp.op = "funnel"
     /\ resp.status = 200
     /\ resp.tourScheduled = "true"
     /\ resp.booked = Undefined
     /\ resp.loaded.tourScheduled)
        => StatsOf(resp.loaded.refCode) = resp.pre

\* the repeated call on a lead attributed to an active partner
C14_Witness ==
    /\ resp.op = "funnel"
    /\ resp.status = 200
    /\ resp.tourScheduled = "true"
    /\ resp.booked = Undefined
    /\ resp.loaded.tourScheduled
    /\ resp.loaded.refSource # Null
    /\ findByCode(resp.loaded.refCode) # {}
    /\ StatsOf(resp.loaded.refCode).totalLeads = 1

\* C15: a lead's funnel state only moves forward: tourScheduled, once true,
\* stays true; booked, once true, stays true; and booked is never true while
\* tourScheduled is false.
C15_FunnelOnlyMovesForward ==
    /\ [][\A i \in 1..Len(leads) :
            /\ leads[i].tourScheduled => leads'[i].tourScheduled
            /\ leads[i].booked => leads'[i].booked]_vars
    /\ [](\A i \in 1..Len(leads) : leads[i].booked => leads[i].tourScheduled)

\* C16: the pre-save hook makes at most 10 generate-and-check attempts; when
\* all 10 candidates are taken the creation ends in an error (500) and the
\* applicant is not stored.
C16_AtMostTenAttempts ==
    /\ \A p \in Procs : procs[p].op = "create" => procs[p].attempts < 10
    /\ (resp.op = "create" /\ resp.status = 500)
          => (resp.attempts = 10 /\ PartnersWithEmail(resp.email) = {})

\* ten candidates in a row were taken and the creation failed
C16_Witness ==
    /\ resp.op = "create"
    /\ resp.status = 500
    /\ resp.attempts = 10
    /\ Len(partners) = 1

\* C17: a creation whose insert was refused by the unique index on code does
\* not fail: it is retried and answers 201.
C17_CodeConflictIsRetried ==
    (resp.op = "create" /\ "conflict" \in DOMAIN resp /\ resp.status # 201)
        => ~resp.conflict

\* C18: the SiteStats collection never holds two documents for one calendar
\* date, and every document is keyed by the first instant of its day; this
\* holds after repeated and after concurrent updateDailyStats calls.
C18_OneRecordPerDate ==
    \A d1, d2 \in siteStats :
        /\ d1.date = StartOfDay(d1.date)
        /\ d1.date = d2.date => d1 = d2

\* two calls for one date ran together, both found no document, and the
\* insert of the second was refused by the unique index
C18_Witness ==
    /\ rollupLog.conflict
    /\ Cardinality(DocsFor(rollupLog.date)) = 1

\* the log with every event outside [from, to] removed
WindowOnly(log, from, to) ==
    [k \in EventKeys |-> IF k.at >= from /\ k.at <= to THEN log[k] ELSE 0]

ClaimedBucket(page) ==
    IF page = NoPage \/ page = <<"/">> THEN <<"home">>
    ELSE IF Head(page) = "/" THEN Tail(page) ELSE page

\* C20: in the statsUpdate a rollup computes, every page_view event is counted
\* in exactly one byPage bucket, named by the page path without its leading
\* slash, or "home" when the page is empty or null; so the byPage values add up
\* to pageViews.total.
C20_EveryPageViewInOneBucket ==
    \A w \in DOMAIN rollups :
        rollups[w].pc # "idle" =>
            LET pv == rollups[w].stats.pageViews
            IN  /\ SumOver(DOMAIN pv.byPage, pv.byPage) = pv.total
                /\ DOMAIN pv.byPage \subseteq
                      {ClaimedBucket(sh.page) : sh \in {x \in EventShapes : x.type = "page_view"}}


\* C21: a throw of the analytics write made during review submission never
\* fails the submission: the review stays stored and the caller is answered
\* with the success status
C21_TrackingFailureIsNotFatal ==
    (reviewReq.pc = "done" /\ reviewReq.at = "Analytics.create") =>
        /\ reviewReq.id \in 1..Len(reviews)
        /\ reviewReq.status = 201


C23_CodeNeverChanges ==
    [][\A k \in 1..Len(partners) :
          /\ k \in 1..Len(partners')
          /\ partners'[k].code = partners[k].code]_vars

\* updatePartner has renamed a partner, and the code drawn from the old name stands
C23_Witness ==
    /\ resp.op = "update"
    /\ resp.status = 200
    /\ resp.before.name # partners[resp.id].name
    /\ partners[resp.id].code = resp.before.code
    /\ partners[resp.id].code # NoCode
    /\ ledgerCalls[resp.id].lead > 0


\* C24: a stored lead's refSource, refCode and utm block are the ones written
\* at creation: no step of updateContactLeadStatus, updateContactStatus,
\* getContactSubmission or of any other handler changes them
C24_AttributionNeverChanges ==
    [][\A i \in 1..Len(leads) :
          /\ i \in 1..Len(leads')
          /\ leads'[i].refSource = leads[i].refSource
          /\ leads'[i].refCode = leads[i].refCode
          /\ leads'[i].utm = leads[i].utm]_vars

\* an attributed lead whose status an admin has just set
C24_Witness ==
    /\ resp.op = "status"
    /\ resp.status = 200
    /\ leads[resp.id].status = "archived"
    /\ resp.before.status # "archived"
    /\ leads[resp.id].refSource # Null
    /\ leads[resp.id].refCode # NoRef
    /\ leads[resp.id].utm = "newsletter"


\* C25: the Partner collection never loses a document, and a completed
\* deletePartner leaves the partner stored with active = false and with the
\* code, e-mail and counters it had
C25_PartnersNeverDeleted ==
    /\ [][Len(partners') >= Len(partners)]_vars
    /\ [](resp.op = "delete" /\ resp.status = 200 =>
            /\ resp.id \in 1..Len(partners)
            /\ partners[resp.id] = [resp.before EXCEPT !.active = FALSE])

\* an active partner with a counted lead has just been deactivated
C25_Witness ==
    /\ resp.op = "delete"
    /\ resp.status = 200
    /\ resp.before.active
    /\ ~partners[resp.id].active
    /\ partners[resp.id].totalLeads = 1


\* the first class of a priority list whose pattern occurs in the agent, the
\* last class of the list being the one without a pattern
FirstMatch(ua, order, patterns) ==
    LET hits == {i \in 1..(Len(order) - 1) : \E w \in ua : ToLowerToken[w] \in patterns[i]}
    IN  IF hits = {} THEN order[Len(order)]
        ELSE order[CHOOSE i \in hits : \A j \in hits : i <= j]

\* C27: classification is first-match-wins: device is mobile on
\* Mobile/Android/iPhone, else tablet on iPad/Tablet, else desktop; browser
\* is chrome, else firefox, else safari, else edge, else other. An agent with
\* Chrome and Safari is chrome, one with Mobile and iPad is mobile.
C27_FirstMatchWins ==
    agentClass # NoClass =>
        /\ agentClass.deviceType =
              FirstMatch(agent, <<"mobile", "tablet", "desktop">>,
                         <<{"mobile", "android", "iphone"}, {"ipad", "tablet"}>>)
        /\ agentClass.browser =
              FirstMatch(agent, <<"chrome", "firefox", "safari", "edge", "other">>,
                         <<{"chrome"}, {"firefox"}, {"safari"}, {"edge"}>>)
        /\ {"Chrome", "Safari"} \subseteq agent => agentClass.browser = "chrome"
        /\ {"Mobile", "iPad"} \subseteq agent => agentClass.deviceType = "mobile"

\* an iPad that announces Mobile and Safari has been classified
C27_Witness ==
    /\ agent = {"iPad", "Mobile", "Safari"}
    /\ agentClass = [deviceType |-> "mobile", browser |-> "safari"]


\* the sum of the counts a breakdown reports
BreakdownTotal(entries, count(_)) ==
    LET f == [e \in entries |-> count(e)] IN SumOver(entries, f)

Views(e) == e.views
Value(e) == e.value

\* C26 as stated: each entry's percentage is exactly its count divided by the
\* sum of the counts of its breakdown, times 100, and 0 when that sum is 0
C26_PercentageIsExactQuotient ==
    /\ \A e \in pageOut.pages :
          LET total == BreakdownTotal(pageOut.pages, Views)
          IN  IF total = 0 THEN e.percentage = ZeroPercent
              ELSE e.percentage.tenths * total = 10 * 100 * e.views
    /\ \A e \in deviceOut.devices :
          e.percentage.tenths * BreakdownTotal(deviceOut.devices, Value) = 10 * 100 * e.value
    /\ \A e \in deviceOut.browsers :
          e.percentage.tenths * BreakdownTotal(deviceOut.browsers, Value) = 10 * 100 * e.value

\* a reported percentage is the one-decimal string nearest to count / total * 100
NearestTenth(pct, count, total) ==
    LET err == pct.tenths * total - 10 * 100 * count
    IN  /\ pct.type = "string"
        /\ total > 0
        /\ 2 * err <= total
        /\ 2 * err >= 0 - total

\* C26: each entry's percentage is the one-decimal string of its count divided
\* by the sum of the counts of its own breakdown, times 100, rounded to the
\* nearest tenth; a breakdown without matching events has no entry, so that
\* nothing is divided by 0
C26_PercentageIsRoundedShare ==
    /\ \A e \in pageOut.pages :
          NearestTenth(e.percentage, e.views, BreakdownTotal(pageOut.pages, Views))
    /\ \A e \in deviceOut.devices :
          NearestTenth(e.percentage, e.value, BreakdownTotal(deviceOut.devices, Value))
    /\ \A e \in deviceOut.browsers :
          NearestTenth(e.percentage, e.value, BreakdownTotal(deviceOut.browsers, Value))
    /\ pageOut.done =>
          /\ BreakdownTotal(pageOut.pages, Views)
                = SumOver({pg \in PageKeys : pg # NoPage}, pageLog)
          /\ (BreakdownTotal(pageOut.pages, Views) = 0 => pageOut.pages = {})
    /\ deviceOut.done =>
          /\ BreakdownTotal(deviceOut.devices, Value)
                = SumOver({ua \in SampleAgents : ua # NoAgent}, uaLog)
          /\ BreakdownTotal(deviceOut.browsers, Value)
                = BreakdownTotal(deviceOut.devices, Value)
          /\ (BreakdownTotal(deviceOut.devices, Value) = 0 =>
                deviceOut.devices = {} /\ deviceOut.browsers = {})

\* one view of "/home" among three paged views, next to views without a page
C26_Witness ==
    /\ pageOut.done
    /\ pageLog[NoPage] > 0
    /\ \E e \in pageOut.pages :
          /\ e.views = 1
          /\ BreakdownTotal(pageOut.pages, Views) = 3
          /\ e.percentage = [type |-> "string", tenths |-> 333]


\* C28: once every request has been answered, and none of them failed, each
\* partner's totalLeads, totalTours and totalBookings equal the numbers of
\* stored leads with its code, of those with tourScheduled, and of those with
\* booked (leadCount, tourCount and bookingCount of getPartners)
C28_CountersAgreeWithLeads ==
    (\A p \in Procs : IsIdle(p)) =>
        \A k \in 1..Len(partners) :
            /\ partners[k].totalLeads = leadCount(partners[k].code)
            /\ partners[k].totalTours = tourCount(partners[k].code)
            /\ partners[k].totalBookings = bookingCount(partners[k].code)


\* C29: a lead submission adds to the partner's totalLeads only when its lead
\* is stored: when Contact.create fails after the referral code has resolved,
\* totalLeads is what it was before the submission
C29_LeadCountedOnlyWhenStored ==
    (/\ resp.op = "submit"
     /\ resp.status = 500
     /\ resp.resolved)
        => StatsOf(ToUpperCase(resp.refCode)).totalLeads = resp.pre.totalLeads


\* the handler states that follow a partner lookup which resolved
LedgerPcs == {"ledger", "tourLedger", "bookLedger"}

\* C30 as stated: while a partner is deactivated, no step changes its
\* counters or its lastActivityAt (which every returned updateStats call stamps)
C30_InactivePartnerIsFrozen ==
    [][\A k \in 1..Len(partners) :
          ~partners[k].active =>
              /\ partners'[k].totalLeads = partners[k].totalLeads
              /\ partners'[k].totalTours = partners[k].totalTours
              /\ partners'[k].totalBookings = partners[k].totalBookings
              /\ ledgerCalls'[k] = ledgerCalls[k]]_vars

\* C30: a partner lookup resolves a partner that is active when the lookup
\* runs, and a partner's counters and lastActivityAt change only in the
\* updateStats call of a handler whose lookup resolved it: a lead submission
\* or funnel update that looks the partner up while it is deactivated
\* changes nothing of it
C30_LookupResolvesActiveOnly ==
    /\ [][\A p \in Procs :
            (procs'[p] # procs[p] /\ procs'[p].pc \in LedgerPcs) =>
                /\ partners[procs'[p].partner.idx].active
                /\ procs'[p].partner.doc = partners[procs'[p].partner.idx]]_vars
    /\ [][\A k \in 1..Len(partners) :
            (\/ partners'[k].totalLeads # partners[k].totalLeads
             \/ partners'[k].totalTours # partners[k].totalTours
             \/ partners'[k].totalBookings # partners[k].totalBookings
             \/ ledgerCalls'[k] # ledgerCalls[k]) =>
                \E p \in Procs : /\ procs[p].pc \in LedgerPcs
                                 /\ procs[p].partner.idx = k
                                 /\ procs'[p] # procs[p]]_vars

\* a lead submitted with the code of a deactivated partner has been stored,
\* and the partner is as it was
C30_Witness ==
    /\ resp.op = "submit"
    /\ resp.status = 201
    /\ ~resp.threw
    /\ ~resp.resolved
    /\ \E k \in PartnersWithCode(ToUpperCase(resp.refCode)) :
          /\ ~partners[k].active
          /\ ledgerCalls[k] = [lead |-> 0, tour |-> 0, booking |-> 0]
          /\ partners[k].totalLeads = 0

====
